---- MODULE Spec2Model ----
(***************************************************************************)
(* A model of django_s3_express_cache.s3_cache: the key codec               *)
(* (turn_key_into_directory_path, parse_time_base_prefix), the path         *)
(* construction (_s3_compatible_key_func, make_key), the timeout policy     *)
(* (get_backend_timeout and the validation in set) and the five cache       *)
(* operations of S3ExpressCacheBackend over an S3 bucket.                   *)
(*                                                                         *)
(* Strings are sequences of one-character strings.  The bucket is a         *)
(* partial function from object keys (paths) to objects.  Time is counted   *)
(* in whole seconds since the epoch; sub-second fractions and the rounding  *)
(* of an IEEE double are left out.                                          *)
(***************************************************************************)
EXTENDS Integers, Sequences, FiniteSets, TLC

VARIABLES
    store,            \* the bucket: [set of paths -> stored object]
    clock,            \* wall clock, whole seconds since the epoch
    key_prefix,       \* BaseCache.key_prefix (KEY_PREFIX), a string
    default_timeout,  \* BaseCache.default_timeout (TIMEOUT)
    last,             \* the last call made: its arguments and its outcome
    hist,             \* per (key, version): the last successful write
    ncalls,           \* number of steps (calls, clock advances) so far
    scope,            \* the arguments this run draws its calls from
    procs             \* the concurrent add calls in flight (SpecConc)

vars == <<store, clock, key_prefix, default_timeout, last, hist, ncalls, scope, procs>>

----------------------------------------------------------------------------
(* Python values *)

\* An optional integer: None or an int (a version, a normalised timeout).
None == [kind |-> "None", v |-> 0]
IntV(n) == [kind |-> "int", v |-> n]
\* django.core.cache.backends.base.DEFAULT_TIMEOUT, a sentinel object.
DEFAULT_TIMEOUT == [kind |-> "DEFAULT_TIMEOUT", v |-> 0]

\* A number that may exceed 2^31 (nanoseconds since the epoch), in two limbs:
\* its value is giga * 10^9 + unit, 0 <= unit < 10^9.
NsPerSec == 1000000000
Num(giga, unit) == [giga |-> giga, unit |-> unit]
Zero == Num(0, 0)
NumGt(a, b) == a.giga > b.giga \/ (a.giga = b.giga /\ a.unit > b.unit)
\* n * 1e9 for an integer n of seconds.
TimesGiga(n) == Num(n, 0)
\* An integer number of seconds as a number.
OfInt(n) == Num(n \div NsPerSec, n % NsPerSec)

----------------------------------------------------------------------------
(* Strings *)

Digits == <<"0", "1", "2", "3", "4", "5", "6", "7", "8", "9">>
IsDigit(c) == \E i \in 1..10 : Digits[i] = c
DigitValue(c) == (CHOOSE i \in 1..10 : Digits[i] = c) - 1

RECURSIVE NatToStr(_)
NatToStr(n) ==
    IF n < 10 THEN <<Digits[n + 1]>>
    ELSE NatToStr(n \div 10) \o <<Digits[(n % 10) + 1]>>

\* str(n) of a Python int, as an f-string formats it.
IntToStr(n) == IF n < 0 THEN <<"-">> \o NatToStr(0 - n) ELSE NatToStr(n)

RECURSIVE StrToNat(_)
\* int(s) of a non-empty string of decimal digits.
StrToNat(s) ==
    IF Len(s) = 0 THEN 0
    ELSE StrToNat(SubSeq(s, 1, Len(s) - 1)) * 10 + DigitValue(s[Len(s)])

\* Whether s holds the characters of lit from position i on.
HasAt(s, i, lit) ==
    /\ Len(s) >= i + Len(lit) - 1
    /\ \A j \in 1..Len(lit) : s[i + j - 1] = lit[j]

\* The number of leading decimal digits of s: what a greedy \d+ takes.
LeadingDigits(s) ==
    IF \E n \in 1..Len(s) : ~IsDigit(s[n])
    THEN (CHOOSE n \in 1..Len(s) :
              /\ ~IsDigit(s[n])
              /\ \A j \in 1..(n - 1) : IsDigit(s[j])) - 1
    ELSE Len(s)

\* The index of the last character of a leading  \d+-days?  in s, 0 when s
\* has none.  The optional s is taken when present: the character after the
\* directive must be ':' or '/', so leaving it out can never match instead.
DayPrefixEnd(s) ==
    LET n == LeadingDigits(s) IN
    IF n = 0 \/ ~HasAt(s, n + 1, <<"-", "d", "a", "y">>) THEN 0
    ELSE IF HasAt(s, n + 5, <<"s">>) THEN n + 5 ELSE n + 4

\* Whether  (.*)$  matches the whole rest r: '.' takes no line feed, and '$'
\* matches at the end and just before a line feed that ends the string.
DotStarDollar(r) ==
    \A j \in 1..Len(r) : r[j] = "\n" => j = Len(r)

\* What the group (.*) holds when  (.*)$  matches r.
DotStarGroup(r) ==
    IF Len(r) > 0 /\ r[Len(r)] = "\n" THEN SubSeq(r, 1, Len(r) - 1) ELSE r

----------------------------------------------------------------------------
(* Key codec *)

\* re.match(r"^(^\d+-days?):(.*)$", key): 'N-days:rest' becomes 'N-days/rest'.
turn_key_into_directory_path(key) ==
    LET e == DayPrefixEnd(key)
        rest == SubSeq(key, e + 2, Len(key))
    IN  IF e > 0 /\ HasAt(key, e + 1, <<":">>) /\ DotStarDollar(rest)
        THEN SubSeq(key, 1, e) \o <<"/">> \o DotStarGroup(rest)
        ELSE key

\* re.match(r"^(^\d+)-days?[:/](.*)$", key): the days N of the directive;
\* ok is FALSE where the code raises ValueError.
parse_time_base_prefix(key) ==
    LET e == DayPrefixEnd(key)
        rest == SubSeq(key, e + 2, Len(key))
    IN  IF /\ e > 0
           /\ (HasAt(key, e + 1, <<":">>) \/ HasAt(key, e + 1, <<"/">>))
           /\ DotStarDollar(rest)
        THEN [ok |-> TRUE, days |-> StrToNat(SubSeq(key, 1, LeadingDigits(key)))]
        ELSE [ok |-> FALSE, days |-> 0]

\* _s3_compatible_key_func that leaves the version out.
key_func_without_version(key, prefix, version) ==
    IF Len(prefix) > 0 THEN prefix \o <<"/">> \o key ELSE key

\* f"{key}_{version}" if version else key, then f"{key_prefix}/{_key}" if
\* key_prefix else _key.  version is an int here: 0 is falsy.
_s3_compatible_key_func(key, prefix, version) ==
    LET _key == IF version # 0 THEN key \o <<"_">> \o IntToStr(version) ELSE key
    IN  IF Len(prefix) > 0 THEN prefix \o <<"/">> \o _key ELSE _key

\* BaseCache.version (VERSION), which BaseCache.make_key uses for version None.
cache_version == 1

\* make_key: the rewritten key through BaseCache.make_key, which replaces a
\* version of None by the cache's version and calls key_func.
make_key_with(prefix, key, version) ==
    _s3_compatible_key_func(
        turn_key_into_directory_path(key),
        prefix,
        IF version = None THEN cache_version ELSE version.v)

make_key(key, version) == make_key_with(key_prefix, key, version)

----------------------------------------------------------------------------
(* Stored objects *)

\* pickle.dumps(value): never empty; pickle.loads gives the value back.
pickle_dumps(value) == <<"pickle", value>>
pickle_loads(bytes) == bytes[2]

\* An object body: nhdr of the 8 header bytes are there (fewer than 8 only
\* in an object that set did not write), exp is the double they hold, payload
\* the bytes after them.
Object(exp, payload) == [nhdr |-> 8, exp |-> exp, payload |-> payload]
ShortObject(n) == [nhdr |-> n, exp |-> Zero, payload |-> <<>>]

\* client.put_object / client.delete_object on the bucket.
put_object(st, path, obj) ==
    [q \in (DOMAIN st) \cup {path} |-> IF q = path THEN obj ELSE st[q]]
delete_object(st, path) ==
    [q \in (DOMAIN st) \ {path} |-> st[q]]

----------------------------------------------------------------------------
(* Timeout policy *)

SecondsPerDay == 24 * 60 * 60

Max(a, b) == IF a > b THEN a ELSE b

\* get_backend_timeout that takes the sentinel for None.
backend_timeout_sentinel_as_none(timeout, default) ==
    LET t == IF timeout = DEFAULT_TIMEOUT THEN None ELSE timeout
    IN  IF t = None THEN None ELSE IntV(Max(0, t.v))

\* get_backend_timeout with the cache's default given: None, or max(0, int).
backend_timeout(timeout, default) ==
    LET t == IF timeout = DEFAULT_TIMEOUT THEN default ELSE timeout
    IN  IF t = None THEN None ELSE IntV(Max(0, t.v))

get_backend_timeout(timeout) == backend_timeout(timeout, default_timeout)

\* The check of set on a normalised timeout that is not None, against the
\* object key: "" when it passes, else the exception raised.
validate_timeout(path, seconds) ==
    LET key_time_prefix == parse_time_base_prefix(path)
        timeout_in_days == seconds \div SecondsPerDay
    IN  IF ~key_time_prefix.ok THEN "ValueError"
        ELSE IF timeout_in_days > key_time_prefix.days THEN "ValueError"
        ELSE ""

\* time.time_ns() + timeout * 1e9 if timeout else 0
expiration_time(now, timeout) ==
    IF timeout # None /\ timeout.v # 0 THEN TimesGiga(now + timeout.v) ELSE Zero

\* datetime.now().timestamp()
timestamp(now) == OfInt(now)

----------------------------------------------------------------------------
(* The cache operations, as functions of the bucket and the clock *)

\* set that puts the object before it validates the timeout.
set_put_before_validation(st, now, key, value, timeout, version) ==
    LET path == make_key(key, version)
        t == get_backend_timeout(timeout)
        err == IF t # None THEN validate_timeout(path, t.v) ELSE ""
    IN  [raised |-> err,
         store |-> put_object(st, path,
                       Object(expiration_time(now, t), pickle_dumps(value)))]

\* set: [raised, store]; the bucket is unchanged when it raises.
set(st, now, key, value, timeout, version) ==
    LET path == make_key(key, version)
        t == get_backend_timeout(timeout)
        err == IF t # None THEN validate_timeout(path, t.v) ELSE ""
    IN  IF err # "" THEN [raised |-> err, store |-> st]
        ELSE [raised |-> "",
              store |-> put_object(st, path,
                            Object(expiration_time(now, t), pickle_dumps(value)))]

\* The liveness test of has_key on the header read.
header_live(exp, now) ==
    IF exp = Zero THEN TRUE ELSE NumGt(exp, timestamp(now))

\* has_key: [raised, result]
has_key(st, now, key, version) ==
    LET path == make_key(key, version) IN
    IF path \notin DOMAIN st THEN [raised |-> "", result |-> FALSE]
    ELSE IF st[path].nhdr < 8 THEN [raised |-> "struct.error", result |-> FALSE]
    ELSE [raised |-> "", result |-> header_live(st[path].exp, now)]

\* header_expired with the comparison turned round.
header_expired_reversed(exp, now) ==
    IF exp = Zero THEN FALSE ELSE NumGt(exp, timestamp(now))

\* The expiry test of get on the first chunk.
header_expired(exp, now) ==
    IF exp = Zero THEN FALSE ELSE NumGt(timestamp(now), exp)

\* get: [raised, result]
get(st, now, key, default, version) ==
    LET path == make_key(key, version) IN
    IF path \notin DOMAIN st THEN [raised |-> "", result |-> default]
    ELSE IF st[path].nhdr = 0 THEN [raised |-> "", result |-> default]
    ELSE IF st[path].nhdr < 8 THEN [raised |-> "struct.error", result |-> default]
    ELSE IF header_expired(st[path].exp, now) THEN [raised |-> "", result |-> default]
    ELSE IF Len(st[path].payload) = 0 THEN [raised |-> "", result |-> default]
    ELSE [raised |-> "", result |-> pickle_loads(st[path].payload)]

\* add_finish that puts only if the object is still absent.
add_finish_if_absent(st, now, key, value, timeout, version) ==
    IF has_key(st, now, key, version).result
    THEN [raised |-> "", result |-> FALSE, store |-> st]
    ELSE LET s == set(st, now, key, value, timeout, version) IN
         [raised |-> s.raised, result |-> (s.raised = ""), store |-> s.store]

\* The rest of add once has_key has answered False: set, then return True.
\* [raised, result, store]
add_finish(st, now, key, value, timeout, version) ==
    LET s == set(st, now, key, value, timeout, version) IN
    [raised |-> s.raised, result |-> (s.raised = ""), store |-> s.store]

\* add that never asks has_key.
add_unchecked(st, now, key, value, timeout, version) ==
    LET s == set(st, now, key, value, timeout, version) IN
    [raised |-> s.raised, result |-> (s.raised = ""), store |-> s.store]

\* add: [raised, result, store]
add(st, now, key, value, timeout, version) ==
    LET h == has_key(st, now, key, version) IN
    IF h.raised # "" THEN [raised |-> h.raised, result |-> FALSE, store |-> st]
    ELSE IF h.result THEN [raised |-> "", result |-> FALSE, store |-> st]
    ELSE add_finish(st, now, key, value, timeout, version)

\* delete: [raised, result, store]
delete(st, key, version) ==
    [raised |-> "", result |-> TRUE,
     store |-> delete_object(st, make_key(key, version))]

----------------------------------------------------------------------------
(* Bounds and inputs *)

\* Steps (calls of the API, clock advances) in one run.
MaxCalls == 3
\* The clock at the start, seconds since the epoch.
Clock0 == 1000

KeyColon == <<"2", "-", "d", "a", "y", "s", ":", "k">>
KeySlash == <<"2", "-", "d", "a", "y", "s", "/", "k">>
KeyPlain == <<"k">>
KeySuffix == <<"k", "_", "1">>
KeyLines == <<"2", "-", "d", "a", "y", ":", "a", "\n", "b">>
Keys == {KeyColon, KeySlash, KeyPlain, KeySuffix, KeyLines}

Versions == {None, IntV(0), IntV(2)}
Values == {"v1", "v2"}
\* The default the caller of get passes.
Default == "default"

Timeouts ==
    {DEFAULT_TIMEOUT, None, IntV(-1), IntV(0), IntV(60),
     IntV(3 * SecondsPerDay - 1), IntV(3 * SecondsPerDay)}

\* By how much the clock advances in one step.
TickSteps == {1, 3 * SecondsPerDay}

KV == Keys \X Versions

\* A run draws the arguments of its calls from one of these families: pairs
\* of (key, version), timeouts and values.
Family(kvs, timeouts, values) ==
    [kvs |-> kvs, timeouts |-> timeouts, values |-> values]

\* One entry under every timeout.
ScopeTimeouts == Family({<<KeyColon, None>>}, Timeouts, {"v1"})
\* The two spellings of one directive, which share an object key.
ScopeDelimiters ==
    Family({<<KeyColon, None>>, <<KeySlash, None>>}, {None}, Values)
\* One key under several versions, and a key that ends like a version suffix.
ScopeVersions ==
    Family({<<KeyPlain, None>>, <<KeyPlain, IntV(0)>>, <<KeyPlain, IntV(2)>>,
            <<KeySuffix, IntV(0)>>},
           {None}, Values)
\* Keys with and without a directive under timeouts around the limit.
ScopeRule ==
    Family({<<KeySlash, IntV(2)>>, <<KeyPlain, None>>, <<KeyLines, None>>},
           {IntV(60), IntV(3 * SecondsPerDay - 1), IntV(3 * SecondsPerDay)},
           {"v1"})

Scopes == {ScopeTimeouts, ScopeDelimiters, ScopeVersions, ScopeRule}

\* A bucket that other writers put objects in.
ScopeStore ==
    Family({<<KeyColon, None>>}, {None, IntV(60), IntV(3 * SecondsPerDay)}, Values)
\* Objects another writer may have put: headers in epoch seconds around the
\* starting clock, with and without a payload, and bodies cut short.
ForeignObjects ==
    {Object(OfInt(Clock0 - 1), pickle_dumps("v2")),
     Object(OfInt(Clock0), pickle_dumps("v2")),
     Object(OfInt(Clock0 + 1), pickle_dumps("v2")),
     Object(OfInt(Clock0 + 1), <<>>),
     Object(Zero, <<>>),
     ShortObject(0),
     ShortObject(3)}

\* Concurrent callers of add.
ScopeConc ==
    Family({<<KeyPlain, None>>, <<KeyColon, None>>}, {None, IntV(60)}, Values)

Clients == {1, 2}

\* A backend configured with a TIMEOUT or a KEY_PREFIX of its own.
ScopeConfig ==
    Family({<<KeyColon, None>>, <<KeyPlain, IntV(2)>>},
           {DEFAULT_TIMEOUT, None, IntV(-1), IntV(60), IntV(3 * SecondsPerDay)},
           {"v1"})
ConfiguredTimeouts ==
    {None, IntV(-1), IntV(60), IntV(300), IntV(3 * SecondsPerDay)}
PrefixApp == <<"a", "p", "p">>
PrefixDay == <<"1", "-", "d", "a", "y">>
ConfiguredPrefixes == {<<>>, PrefixApp, PrefixDay}

\* A host whose clock starts at the epoch, and the times it is later set to.
ScopeEpoch == Family({<<KeyColon, None>>}, {None, IntV(1)}, Values)
EpochTimes == {1, NsPerSec - 1, NsPerSec, NsPerSec + 1}

\* Keys the codec is applied to: a head, a unit, a delimiter and a rest.
CodecHeads == {<<>>, <<"2">>, <<"1", "0">>, <<"x", "2">>}
CodecUnits ==
    {<<>>, <<"-", "d", "a", "y">>, <<"-", "d", "a", "y", "s">>, <<"-", "d", "y">>}
CodecDelimiters == {<<>>, <<":">>, <<"/">>, <<"_">>}
CodecRests ==
    {<<>>, <<"k">>, <<"a", ":", "b">>, <<"a", "\n", "b">>, <<"k", "\n">>, <<"\n">>}
CodecKeys ==
    {h \o u \o d \o r :
        h \in CodecHeads, u \in CodecUnits, d \in CodecDelimiters, r \in CodecRests}

----------------------------------------------------------------------------
(* State *)

EmptyStore == [q \in {} |-> ShortObject(0)]

\* A call: its number in the run, its arguments, what it returned or raised.
Call(n, op, key, version, timeout, value, result, raised) ==
    [n |-> n, op |-> op, key |-> key, version |-> version, timeout |-> timeout,
     value |-> value, result |-> result, raised |-> raised]

NoCall == Call(0, "none", <<>>, None, None, "", "", "")

BoolStr(b) == IF b THEN "True" ELSE "False"

\* hist[kv]: nothing yet, a successful set (when, with which timeout argument
\* and value), or a delete.
NoWrite == [kind |-> "none", at |-> 0, timeout |-> None, value |-> ""]
Written(at, timeout, value) ==
    [kind |-> "set", at |-> at, timeout |-> timeout, value |-> value]
Deleted(at) == [kind |-> "deleted", at |-> at, timeout |-> None, value |-> ""]

\* A caller of add: where it stands, its arguments, what has_key answered,
\* what add returned or raised, and the number of the step that put its object.
Idle ==
    [pc |-> "idle", key |-> <<>>, version |-> None, timeout |-> None,
     value |-> "", seen |-> FALSE, result |-> "", raised |-> "", order |-> 0]

\* The backend as BaseCache.__init__ sets it up with no KEY_PREFIX and no
\* TIMEOUT given (300 seconds), on an empty bucket.
InitBackend ==
    /\ store = EmptyStore
    /\ clock = Clock0
    /\ key_prefix = <<>>
    /\ default_timeout = IntV(300)
    /\ last = NoCall
    /\ hist = [kv \in KV |-> NoWrite]
    /\ ncalls = 0
    /\ procs = [c \in Clients |-> Idle]

Init ==
    /\ InitBackend
    /\ scope \in Scopes

config == <<key_prefix, default_timeout, scope>>

----------------------------------------------------------------------------
(* Actions: one call of the cache API each *)

Set(key, value, timeout, version) ==
    LET r == set(store, clock, key, value, timeout, version) IN
    /\ ncalls < MaxCalls
    /\ store' = r.store
    /\ last' = Call(ncalls + 1, "set", key, version, timeout, value, "None", r.raised)
    /\ hist' = IF r.raised = ""
               THEN [hist EXCEPT ![<<key, version>>] = Written(clock, timeout, value)]
               ELSE hist
    /\ ncalls' = ncalls + 1
    /\ UNCHANGED <<clock, config, procs>>

Add(key, value, timeout, version) ==
    LET r == add(store, clock, key, value, timeout, version) IN
    /\ ncalls < MaxCalls
    /\ store' = r.store
    /\ last' = Call(ncalls + 1, "add", key, version, timeout, value,
                    IF r.raised = "" THEN BoolStr(r.result) ELSE "", r.raised)
    /\ hist' = IF r.raised = "" /\ r.result
               THEN [hist EXCEPT ![<<key, version>>] = Written(clock, timeout, value)]
               ELSE hist
    /\ ncalls' = ncalls + 1
    /\ UNCHANGED <<clock, config, procs>>

Delete(key, version) ==
    LET r == delete(store, key, version) IN
    /\ ncalls < MaxCalls
    /\ store' = r.store
    /\ last' = Call(ncalls + 1, "delete", key, version, None, "",
                    BoolStr(r.result), r.raised)
    /\ hist' = [hist EXCEPT ![<<key, version>>] = Deleted(clock)]
    /\ ncalls' = ncalls + 1
    /\ UNCHANGED <<clock, config, procs>>

\* get that deletes the object it finds expired.
GetReclaiming(key, version) ==
    LET r == get(store, clock, key, Default, version)
        path == make_key(key, version)
    IN  /\ ncalls < MaxCalls
        /\ store' = IF /\ path \in DOMAIN store
                       /\ store[path].nhdr = 8
                       /\ header_expired(store[path].exp, clock)
                    THEN delete_object(store, path)
                    ELSE store
        /\ last' = Call(ncalls + 1, "get", key, version, None, "", r.result, r.raised)
        /\ ncalls' = ncalls + 1
        /\ UNCHANGED <<clock, config, hist, procs>>

Get(key, version) ==
    LET r == get(store, clock, key, Default, version) IN
    /\ ncalls < MaxCalls
    /\ last' = Call(ncalls + 1, "get", key, version, None, "", r.result, r.raised)
    /\ ncalls' = ncalls + 1
    /\ UNCHANGED <<store, clock, config, hist, procs>>

HasKey(key, version) ==
    LET r == has_key(store, clock, key, version) IN
    /\ ncalls < MaxCalls
    /\ last' = Call(ncalls + 1, "has_key", key, version, None, "",
                    IF r.raised = "" THEN BoolStr(r.result) ELSE "", r.raised)
    /\ ncalls' = ncalls + 1
    /\ UNCHANGED <<store, clock, config, hist, procs>>

\* Time passes.
Tick(d) ==
    /\ ncalls < MaxCalls
    /\ clock' = clock + d
    /\ ncalls' = ncalls + 1
    /\ UNCHANGED <<store, config, last, hist, procs>>

Next ==
    \/ \E kv \in scope.kvs, value \in scope.values, timeout \in scope.timeouts :
           Set(kv[1], value, timeout, kv[2])
    \/ \E kv \in scope.kvs, value \in scope.values, timeout \in scope.timeouts :
           Add(kv[1], value, timeout, kv[2])
    \/ \E kv \in scope.kvs : Delete(kv[1], kv[2])
    \/ \E kv \in scope.kvs : Get(kv[1], kv[2])
    \/ \E kv \in scope.kvs : HasKey(kv[1], kv[2])
    \/ \E d \in TickSteps : Tick(d)

Spec == Init /\ [][Next]_vars

----------------------------------------------------------------------------
(* The bucket shared with other writers *)

\* Another client of the bucket puts an object under the path of a key.
ForeignPut(key, version, obj) ==
    /\ ncalls < MaxCalls
    /\ store' = put_object(store, make_key(key, version), obj)
    /\ ncalls' = ncalls + 1
    /\ UNCHANGED <<clock, config, last, hist, procs>>

InitStore ==
    /\ InitBackend
    /\ scope = ScopeStore

NextStore ==
    \/ Next
    \/ \E kv \in scope.kvs, obj \in ForeignObjects : ForeignPut(kv[1], kv[2], obj)

SpecStore == InitStore /\ [][NextStore]_vars

----------------------------------------------------------------------------
(* Backends configured with TIMEOUT or KEY_PREFIX *)

\* BaseCache.__init__ with a TIMEOUT or a KEY_PREFIX given in the settings,
\* the other left at its default.
InitConfig ==
    /\ store = EmptyStore
    /\ clock = Clock0
    /\ key_prefix \in ConfiguredPrefixes
    /\ default_timeout \in ConfiguredTimeouts
    /\ key_prefix = <<>> \/ default_timeout = IntV(300)
    /\ last = NoCall
    /\ hist = [kv \in KV |-> NoWrite]
    /\ ncalls = 0
    /\ procs = [c \in Clients |-> Idle]
    /\ scope = ScopeConfig

NextConfig ==
    \/ \E kv \in scope.kvs, value \in scope.values, timeout \in scope.timeouts :
           Set(kv[1], value, timeout, kv[2])
    \/ \E kv \in scope.kvs : Delete(kv[1], kv[2])
    \/ \E kv \in scope.kvs : Get(kv[1], kv[2])
    \/ \E kv \in scope.kvs : HasKey(kv[1], kv[2])

SpecConfig == InitConfig /\ [][NextConfig]_vars

----------------------------------------------------------------------------
(* A clock that starts at the epoch *)

\* The clock moves forward to now.
TickTo(now) ==
    /\ ncalls < MaxCalls
    /\ now > clock
    /\ clock' = now
    /\ ncalls' = ncalls + 1
    /\ UNCHANGED <<store, config, last, hist, procs>>

InitEpoch ==
    /\ store = EmptyStore
    /\ clock = 0
    /\ key_prefix = <<>>
    /\ default_timeout = IntV(300)
    /\ last = NoCall
    /\ hist = [kv \in KV |-> NoWrite]
    /\ ncalls = 0
    /\ procs = [c \in Clients |-> Idle]
    /\ scope = ScopeEpoch

NextEpoch ==
    \/ \E kv \in scope.kvs, value \in scope.values, timeout \in scope.timeouts :
           Set(kv[1], value, timeout, kv[2])
    \/ \E kv \in scope.kvs, value \in scope.values, timeout \in scope.timeouts :
           Add(kv[1], value, timeout, kv[2])
    \/ \E kv \in scope.kvs : Delete(kv[1], kv[2])
    \/ \E kv \in scope.kvs : Get(kv[1], kv[2])
    \/ \E kv \in scope.kvs : HasKey(kv[1], kv[2])
    \/ \E now \in EpochTimes : TickTo(now)

SpecEpoch == InitEpoch /\ [][NextEpoch]_vars

----------------------------------------------------------------------------
(* The key codec applied to keys *)

\* The string the next codec call is given: the key drawn at the start, then
\* what the last rewrite returned.
CodecInput == IF last.op = "none" THEN last.key ELSE last.result

\* A call of turn_key_into_directory_path; last.result is the string returned.
TurnKey ==
    /\ ncalls < MaxCalls
    /\ last.op \in {"none", "turn_key_into_directory_path"}
    /\ last' = Call(ncalls + 1, "turn_key_into_directory_path", CodecInput,
                    None, None, "", turn_key_into_directory_path(CodecInput), "")
    /\ ncalls' = ncalls + 1
    /\ UNCHANGED <<store, clock, config, hist, procs>>

\* A call of parse_time_base_prefix; last.result is str(N), last.raised the
\* exception.
ParseKey ==
    LET p == parse_time_base_prefix(CodecInput) IN
    /\ ncalls < MaxCalls
    /\ last.op \in {"none", "turn_key_into_directory_path"}
    /\ last' = Call(ncalls + 1, "parse_time_base_prefix", CodecInput,
                    None, None, "",
                    IF p.ok THEN IntToStr(p.days) ELSE <<>>,
                    IF p.ok THEN "" ELSE "ValueError")
    /\ ncalls' = ncalls + 1
    /\ UNCHANGED <<store, clock, config, hist, procs>>

\* No call made yet; last.key is the key the calls will be given.
InitCodec ==
    /\ store = EmptyStore
    /\ clock = Clock0
    /\ key_prefix = <<>>
    /\ default_timeout = IntV(300)
    /\ \E key \in CodecKeys : last = [NoCall EXCEPT !.key = key]
    /\ hist = [kv \in KV |-> NoWrite]
    /\ ncalls = 0
    /\ procs = [c \in Clients |-> Idle]
    /\ scope = Family({}, {}, {})

NextCodec == TurnKey \/ ParseKey

SpecCodec == InitCodec /\ [][NextCodec]_vars

----------------------------------------------------------------------------
(* Concurrent calls of add: each is two round trips to the bucket *)

\* Caller c enters add: the has_key round trip.  A key found live ends the
\* call with False.
AddCheck(c, key, value, timeout, version) ==
    LET h == has_key(store, clock, key, version) IN
    /\ procs[c].pc = "idle"
    /\ procs' = [procs EXCEPT ![c] =
           [pc |-> IF h.raised = "" /\ ~h.result THEN "checked" ELSE "done",
            key |-> key, version |-> version, timeout |-> timeout,
            value |-> value, seen |-> h.result,
            result |-> IF h.raised = "" /\ h.result THEN "False" ELSE "",
            raised |-> h.raised, order |-> 0]]
    /\ ncalls' = ncalls + 1
    /\ UNCHANGED <<store, clock, config, last, hist>>

\* Caller c goes on after has_key answered False: set, then return True.
AddPut(c) ==
    LET p == procs[c]
        r == add_finish(store, clock, p.key, p.value, p.timeout, p.version)
    IN  /\ p.pc = "checked"
        /\ store' = r.store
        /\ procs' = [procs EXCEPT ![c] =
               [p EXCEPT !.pc = "done",
                         !.result = IF r.raised = "" THEN BoolStr(r.result) ELSE "",
                         !.raised = r.raised,
                         !.order = ncalls + 1]]
        /\ ncalls' = ncalls + 1
        /\ UNCHANGED <<clock, config, last, hist>>

InitConc ==
    /\ InitBackend
    /\ scope = ScopeConc

NextConc ==
    \/ \E c \in Clients, kv \in scope.kvs, value \in scope.values,
          timeout \in scope.timeouts :
           AddCheck(c, kv[1], value, timeout, kv[2])
    \/ \E c \in Clients : AddPut(c)

SpecConc == InitConc /\ [][NextConc]_vars

----------------------------------------------------------------------------
(* Properties *)

PathOf(kv) == make_key(kv[1], kv[2])
\* What get and has_key answer in the current state.
GetNow(kv) == get(store, clock, kv[1], Default, kv[2])
HasNow(kv) == has_key(store, clock, kv[1], kv[2])
Returns(r, x) == r.raised = "" /\ r.result = x
\* The step is a call of the API (a clock advance leaves last alone).
IsCall(before, after, ops) == after.n # before.n /\ after.op \in ops

\* A key that starts with N-day or N-days followed by ':' or '/', and its N.
StartsWithDirective(key) ==
    /\ DayPrefixEnd(key) > 0
    /\ Len(key) > DayPrefixEnd(key)
    /\ key[DayPrefixEnd(key) + 1] \in {":", "/"}
DirectiveDays(key) == StrToNat(SubSeq(key, 1, LeadingDigits(key)))

\* C1: a set with timeout T > 0 at time t on a key with a directive stores
\* the expiration t + T in epoch seconds, and once the clock is past t + T
\* get returns the default and has_key False.
C1_TTLExpiry ==
    \A kv \in KV :
        LET h == hist[kv]
            T == get_backend_timeout(h.timeout)
        IN  (h.kind = "set" /\ T # None /\ T.v > 0 /\ StartsWithDirective(kv[1]))
            => /\ PathOf(kv) \in DOMAIN store
                   => store[PathOf(kv)].exp = OfInt(h.at + T.v)
               /\ clock > h.at + T.v
                   => Returns(GetNow(kv), Default) /\ Returns(HasNow(kv), FALSE)

\* C2: after a persistent set of v on (key, version), and until the next set
\* or delete on that (key, version), get returns v and has_key True, at every
\* clock value.
C2_PersistentRoundTrip ==
    \A kv \in KV :
        LET h == hist[kv] IN
        (h.kind = "set" /\ get_backend_timeout(h.timeout) = None)
        => Returns(GetNow(kv), h.value) /\ Returns(HasNow(kv), TRUE)

\* C3: a set with timeout T <= 0 on a key with a directive never stores a
\* persistent entry, and at any later clock value get returns the default and
\* has_key False.
C3_ZeroTimeoutExpires ==
    \A kv \in KV :
        LET h == hist[kv] IN
        (h.kind = "set" /\ h.timeout.kind = "int" /\ h.timeout.v <= 0
            /\ StartsWithDirective(kv[1]))
        => /\ PathOf(kv) \in DOMAIN store => store[PathOf(kv)].exp # Zero
           /\ clock > h.at
               => Returns(GetNow(kv), Default) /\ Returns(HasNow(kv), FALSE)

\* C4: with no key prefix, a persistent set is accepted; a set with a
\* normalised timeout T is accepted, and writes the object, if and only if the
\* key starts with a directive N and T div 86400 <= N, and raises otherwise;
\* so no object under an N-days key was written with a day count above N.
C4_AcceptanceRule ==
    /\ (key_prefix = <<>> /\ last.op = "set")
       => LET T == get_backend_timeout(last.timeout)
              accepted == last.raised = ""
          IN  /\ T = None => accepted
              /\ T # None =>
                    (accepted <=>
                        /\ StartsWithDirective(last.key)
                        /\ T.v \div SecondsPerDay <= DirectiveDays(last.key))
              /\ ~accepted => last.raised = "ValueError"
              /\ accepted => make_key(last.key, last.version) \in DOMAIN store
    /\ \A kv \in KV :
           LET h == hist[kv]
               T == get_backend_timeout(h.timeout)
           IN  (h.kind = "set" /\ T # None /\ StartsWithDirective(kv[1]))
               => T.v \div SecondsPerDay <= DirectiveDays(kv[1])

\* C5: every object stored by set with a timeout T under a key with directive
\* N has T <= N * 86400, and a set with N * 86400 < T is rejected.
C5_TimeoutWithinLifespan ==
    /\ \A kv \in KV :
           LET h == hist[kv]
               T == get_backend_timeout(h.timeout)
           IN  (h.kind = "set" /\ T # None /\ StartsWithDirective(kv[1]))
               => T.v <= DirectiveDays(kv[1]) * SecondsPerDay
    /\ LET T == get_backend_timeout(last.timeout) IN
       (last.op = "set" /\ T # None /\ StartsWithDirective(last.key)
           /\ DirectiveDays(last.key) * SecondsPerDay < T.v)
       => last.raised # ""

\* An object with a whole header holding a positive expiration before now.
ExpiredObject(obj, now) ==
    obj.nhdr = 8 /\ NumGt(obj.exp, Zero) /\ NumGt(OfInt(now), obj.exp)

\* C6: of a stored object whose header holds a positive expiration e < now,
\* get returns the default and has_key False, and neither raises.
C6_ReadSideExpiry ==
    \A kv \in KV :
        (PathOf(kv) \in DOMAIN store /\ ExpiredObject(store[PathOf(kv)], clock))
        => Returns(GetNow(kv), Default) /\ Returns(HasNow(kv), FALSE)

\* A get has just answered the default for an expired object with a payload.
C6_Witness ==
    /\ last.op = "get" /\ last.result = Default /\ last.raised = ""
    /\ make_key(last.key, last.version) \in DOMAIN store
    /\ LET obj == store[make_key(last.key, last.version)] IN
       ExpiredObject(obj, clock) /\ Len(obj.payload) > 0

\* C7 as stated: add returns False and leaves the store unchanged exactly when
\* has_key is true, and otherwise performs set and returns True.
C7_AddAsStated ==
    [][IsCall(last, last', {"add"}) =>
          LET c == last'
              h == has_key(store, clock, c.key, c.version)
              s == set(store, clock, c.key, c.value, c.timeout, c.version)
          IN  IF h.raised = "" /\ h.result
              THEN c.result = "False" /\ store' = store
              ELSE c.result = "True" /\ store' = s.store]_vars

\* C7 amended: add returns False and leaves the store unchanged exactly when
\* has_key returns True; when has_key returns False it performs set, returning
\* True when set returns and raising what set raises, with the store
\* unchanged, when it does not; when has_key itself raises, add raises the
\* same and writes nothing.
C7_Add ==
    [][IsCall(last, last', {"add"}) =>
          LET c == last'
              h == has_key(store, clock, c.key, c.version)
              s == set(store, clock, c.key, c.value, c.timeout, c.version)
          IN  IF h.raised # ""
              THEN c.result = "" /\ c.raised = h.raised /\ store' = store
              ELSE IF h.result
              THEN c.result = "False" /\ c.raised = "" /\ store' = store
              ELSE /\ store' = s.store
                   /\ c.raised = s.raised
                   /\ c.result = (IF s.raised = "" THEN "True" ELSE "")
                   /\ s.raised # "" => store' = store]_vars

\* A second add on a key has returned False and get still returns the value
\* of the first.
C7_Witness ==
    /\ last.op = "add" /\ last.result = "False"
    /\ LET h == hist[<<last.key, last.version>>] IN
       /\ h.kind = "set" /\ h.value # last.value
       /\ Returns(GetNow(<<last.key, last.version>>), h.value)

\* The callers of add that went on to set after has_key answered False, and
\* whose set returned.
PutAfterAbsence(c) ==
    /\ procs[c].pc = "done" /\ ~procs[c].seen
    /\ procs[c].raised = "" /\ procs[c].order > 0

\* C8: when two concurrent adds on one (key, version) both see the key absent,
\* both set and both return True, and the object left is the one put last.
C8_BothAddsReturnTrue ==
    \A c, d \in Clients :
        (/\ c # d /\ PutAfterAbsence(c) /\ PutAfterAbsence(d)
         /\ procs[c].key = procs[d].key /\ procs[c].version = procs[d].version
         /\ procs[c].order < procs[d].order)
        => /\ procs[c].result = "True" /\ procs[d].result = "True"
           /\ LET obj == store[make_key(procs[d].key, procs[d].version)] IN
              obj.payload = pickle_dumps(procs[d].value)

\* Two adds of different values on one absent key have both returned True.
C8_Witness ==
    \E c, d \in Clients :
        /\ c # d /\ PutAfterAbsence(c) /\ PutAfterAbsence(d)
        /\ procs[c].key = procs[d].key /\ procs[c].version = procs[d].version
        /\ procs[c].value # procs[d].value
        /\ procs[c].order < procs[d].order
        /\ procs[c].result = "True" /\ procs[d].result = "True"
        /\ store[make_key(procs[d].key, procs[d].version)].payload
               = pickle_dumps(procs[d].value)

\* C9: delete returns True without error; after it, until the next set on that
\* (key, version), get returns the default and has_key False.
C9_DeleteThenAbsent ==
    /\ last.op = "delete" => last.result = "True" /\ last.raised = ""
    /\ \A kv \in KV :
           hist[kv].kind = "deleted"
           => Returns(GetNow(kv), Default) /\ Returns(HasNow(kv), FALSE)

\* Integer versions a call may be given.
VersionInts == {-1, 0, 1, 2, 10, 12}

\* C10: the paths of a key under two distinct integer versions differ, and a
\* set, add or delete under one leaves get and has_key under the other as they
\* were.
C10_VersionIsolation ==
    [][(IsCall(last, last', {"set", "add", "delete"}) /\ last'.version.kind = "int") =>
          LET k == last'.key
              a == last'.version
          IN  \A b \in VersionInts :
                  b # a.v =>
                    /\ make_key(k, IntV(b)) # make_key(k, a)
                    /\ get(store', clock', k, Default, IntV(b))
                           = get(store, clock, k, Default, IntV(b))
                    /\ has_key(store', clock', k, IntV(b))
                           = has_key(store, clock, k, IntV(b))]_vars

\* A set under one version has just succeeded while the same key holds another
\* value under another version, and get returns each under its own version.
C10_Witness ==
    /\ last.op = "set" /\ last.raised = "" /\ last.version.kind = "int"
    /\ Returns(GetNow(<<last.key, last.version>>), last.value)
    /\ \E b \in Versions :
           /\ b.kind = "int" /\ b # last.version
           /\ hist[<<last.key, b>>].kind = "set"
           /\ hist[<<last.key, b>>].value # last.value
           /\ Returns(GetNow(<<last.key, b>>), hist[<<last.key, b>>].value)

\* Keys, global prefixes and versions that path construction is asked about:
\* keys and prefixes holding '/', a key ending like a version suffix, the two
\* spellings of a directive, version 0 and no version.
KeyNested == <<"b", "/", "k">>
PrefixA == <<"a">>
PrefixAB == <<"a", "/", "b">>
PathTriples ==
    (Keys \cup {KeyNested}) \X {<<>>, PrefixA, PrefixAB} \X Versions
PathOfTriple(t) == make_key_with(t[2], t[1], t[3])

\* C11: two distinct triples (key, prefix, version) never have the same
\* storage path, and a set or add on one (key, version) leaves the object of
\* every other (key, version) as it was.
C11_CollisionFree ==
    [][IsCall(last, last', {"set", "add"}) =>
          /\ \A a, b \in PathTriples : a # b => PathOfTriple(a) # PathOfTriple(b)
          /\ \A kv \in KV :
                 kv # <<last'.key, last'.version>> =>
                   /\ PathOf(kv) # make_key(last'.key, last'.version)
                   /\ PathOf(kv) \in DOMAIN store =>
                          /\ PathOf(kv) \in DOMAIN store'
                          /\ store'[PathOf(kv)] = store[PathOf(kv)]]_vars

\* C12: of a stored object whose body is shorter than 8 bytes, get returns the
\* default and has_key False, and neither raises.
C12_MalformedFailOpen ==
    \A kv \in KV :
        (PathOf(kv) \in DOMAIN store /\ store[PathOf(kv)].nhdr < 8)
        => Returns(GetNow(kv), Default) /\ Returns(HasNow(kv), FALSE)

\* C13: a set that raises ValueError, for a key without a directive or for a
\* day count above the directive, puts nothing: the bucket is unchanged, and
\* get and has_key on every (key, version) answer as before; an add whose set
\* fails likewise, and it raises instead of returning True.
C13_FailedSetChangesNothing ==
    [][(IsCall(last, last', {"set", "add"}) /\ last'.raised = "ValueError") =>
          /\ store' = store
          /\ last'.result # "True"
          /\ \A kv \in KV :
                 /\ get(store', clock', kv[1], Default, kv[2]) = GetNow(kv)
                 /\ has_key(store', clock', kv[1], kv[2]) = HasNow(kv)]_vars

\* A set on a stored entry has just been refused for its day count, and the
\* entry still holds what the earlier set wrote.
C13_Witness ==
    /\ last.op = "set" /\ last.raised = "ValueError"
    /\ StartsWithDirective(last.key)
    /\ LET kv == <<last.key, last.version>> IN
       /\ hist[kv].kind = "set" /\ hist[kv].timeout # last.timeout
       /\ PathOf(kv) \in DOMAIN store
       /\ store[PathOf(kv)] =
              Object(expiration_time(hist[kv].at, get_backend_timeout(hist[kv].timeout)),
                     pickle_dumps(hist[kv].value))

\* C14: get and has_key leave the bucket as it is, whether they find the entry
\* live, expired, malformed or absent; the passing of time removes nothing; and
\* a set, add or delete changes no object but the one at its own path: an
\* expired object stays stored until a set or delete on its path.
C14_ReadsLeaveStore ==
    [][/\ IsCall(last, last', {"get", "has_key"}) => store' = store
       /\ clock' # clock => store' = store
       /\ IsCall(last, last', {"set", "add", "delete"}) =>
              \A q \in DOMAIN store :
                  q # make_key(last'.key, last'.version) =>
                      q \in DOMAIN store' /\ store'[q] = store[q]]_vars

\* has_key has just answered False for an object that is expired, and the
\* object is still in the bucket.
C14_Witness ==
    /\ last.op = "has_key" /\ last.result = "False"
    /\ make_key(last.key, last.version) \in DOMAIN store
    /\ ExpiredObject(store[make_key(last.key, last.version)], clock)

\* The entry of (key, version) is absent or expired in bucket st at time now.
AbsentOrExpired(st, now, kv) ==
    LET path == make_key(kv[1], kv[2]) IN
    path \notin DOMAIN st \/ ExpiredObject(st[path], now)

\* The step is a set or add on (key, version) that succeeded.
SucceedsSetOn(before, after, kv) ==
    /\ IsCall(before, after, {"set", "add"})
    /\ after.key = kv[1] /\ after.version = kv[2]
    /\ after.raised = "" /\ after.result # "False"

\* C15: once the entry of a (key, version) is absent or expired, so that get
\* returns the default, it stays so, get returning the default and has_key
\* False, through every call of the cache and every advance of the clock,
\* until a set (or the set within an add) on that (key, version) succeeds.
C15_NoResurrection ==
    [][\A kv \in KV :
          (/\ AbsentOrExpired(store, clock, kv)
           /\ IsCall(last, last', {"set", "add", "delete", "get", "has_key"})
                  \/ clock' > clock
           /\ ~SucceedsSetOn(last, last', kv))
          => /\ AbsentOrExpired(store', clock', kv)
             /\ Returns(get(store', clock', kv[1], Default, kv[2]), Default)
             /\ Returns(has_key(store', clock', kv[1], kv[2]), FALSE)]_vars

\* C16: a set given the sentinel DEFAULT_TIMEOUT raises or stores exactly what
\* a set given the configured default does, a configured default of None
\* storing a persistent entry; a timeout of None is persistent and any other
\* is normalised to max(0, seconds).
C16_TimeoutNormalization ==
    [][IsCall(last, last', {"set"}) =>
          LET c == last'
              path == make_key(c.key, c.version)
              given == IF c.timeout = DEFAULT_TIMEOUT THEN default_timeout
                       ELSE c.timeout
              T == IF given = None THEN None
                   ELSE IntV(IF given.v > 0 THEN given.v ELSE 0)
              s == set(store, clock, c.key, c.value, given, c.version)
          IN  /\ get_backend_timeout(c.timeout) = T
              /\ c.raised = s.raised
              /\ store' = s.store
              /\ T = None =>
                    /\ c.raised = ""
                    /\ store'[path] = Object(Zero, pickle_dumps(c.value))]_vars

\* With TIMEOUT None configured, a set given no timeout has stored a
\* persistent entry under a key without a directive.
C16_Witness ==
    /\ default_timeout = None
    /\ last.op = "set" /\ last.timeout = DEFAULT_TIMEOUT /\ last.raised = ""
    /\ ~StartsWithDirective(last.key)
    /\ store[make_key(last.key, last.version)].exp = Zero
    /\ Returns(GetNow(<<last.key, last.version>>), last.value)

\* The key starts with digits, then -day or -days, then a colon.
StartsWithColonDirective(key) ==
    DayPrefixEnd(key) > 0 /\ HasAt(key, DayPrefixEnd(key) + 1, <<":">>)

\* C17: turn_key_into_directory_path returns the key as it is, unless the key
\* starts with digits, -day or -days and a colon, and then returns it with
\* that one colon replaced by a slash; applying it twice gives what applying
\* it once gives; and parse_time_base_prefix returns the same N, or raises
\* alike, on the key and on the rewritten key.
C17_KeyCodec ==
    last.op = "turn_key_into_directory_path" =>
        LET k == last.key
            r == last.result
        IN  /\ r = IF StartsWithColonDirective(k)
                   THEN [k EXCEPT ![DayPrefixEnd(k) + 1] = "/"]
                   ELSE k
            /\ turn_key_into_directory_path(r) = r
            /\ parse_time_base_prefix(r) = parse_time_base_prefix(k)

\* C18: a set with a non-persistent timeout T on a key with directive N is
\* accepted under a configured key prefix exactly when it is accepted under
\* none, that is when T div 86400 <= N, and it then stores the object at the
\* prefix, a slash and the path it has under no prefix.
C18_PrefixIndependentValidation ==
    LET T == get_backend_timeout(last.timeout)
        bare == make_key_with(<<>>, last.key, last.version)
        accepted == last.raised = ""
    IN  (last.op = "set" /\ T # None /\ StartsWithDirective(last.key)) =>
            /\ accepted <=> validate_timeout(bare, T.v) = ""
            /\ accepted <=> T.v \div SecondsPerDay <= DirectiveDays(last.key)
            /\ accepted =>
                  (IF key_prefix = <<>> THEN bare ELSE key_prefix \o <<"/">> \o bare)
                      \in DOMAIN store

\* C19: in every state reached through set, add and delete, at every clock
\* value, has_key returns True exactly when get returns the stored value and
\* not the default.
C19_HasKeyAgreesWithGet ==
    \A kv \in KV :
        Returns(HasNow(kv), TRUE)
            <=> (GetNow(kv).raised = "" /\ GetNow(kv).result # Default)

====
